---- MODULE Spec2Model ----
(***************************************************************************)
(* Model of class Subnetting (src/subnetting.py).                          *)
(*                                                                         *)
(* A Python str is modelled as a sequence of one-character strings, so     *)
(* "1.0/24" is <<"1", ".", "0", "/", "2", "4">>.  The string built-ins the *)
(* methods rely on (split, join, int, str, format, ljust, zip, in) are     *)
(* operators over such sequences, and every method is an operator built    *)
(* from them in the order of its code.  A method's outcome is a record:    *)
(* Return(v), ReturnNone (the method falls off its end) or Raise(e) (an    *)
(* exception leaves the method).                                           *)
(***************************************************************************)
EXTENDS Integers, Sequences, FiniteSets, TLC

VARIABLES pc, op, args, drawn, result

vars == <<pc, op, args, drawn, result>>

----------------------------------------------------------------------------
(* Outcomes of a call *)

Return(v) == [status |-> "return", val |-> v]

ReturnNone == [status |-> "None", val |-> <<>>]

Raise(e) == [status |-> "raise", val |-> <<e>>]

----------------------------------------------------------------------------
(* Python built-ins used by the methods *)

Digits == <<"0", "1", "2", "3", "4", "5", "6", "7", "8", "9">>

IsDigit(c) == \E i \in 1..10 : Digits[i] = c

DigitTable ==
    [c \in {Digits[i] : i \in 1..10} |-> (CHOOSE i \in 1..10 : Digits[i] = c) - 1]

DigitVal(c) == DigitTable[c]

Min(a, b) == IF a <= b THEN a ELSE b

\* int(x) succeeds on an optional minus sign followed by decimal digits and
\* raises ValueError otherwise.
CanInt(s) ==
    /\ Len(s) >= 1
    /\ LET d == IF s[1] = "-" THEN Tail(s) ELSE s
       IN  Len(d) >= 1 /\ \A i \in 1..Len(d) : IsDigit(d[i])

RECURSIVE DigitsVal(_, _)
DigitsVal(s, base) ==
    IF s = <<>> THEN 0
    ELSE base * DigitsVal(SubSeq(s, 1, Len(s) - 1), base) + DigitVal(s[Len(s)])

int(s) == IF s[1] = "-" THEN 0 - DigitsVal(Tail(s), 10) ELSE DigitsVal(s, 10)

\* int(x, 2) succeeds on a non-empty string of 0s and 1s.
CanInt2(s) == Len(s) >= 1 /\ \A i \in 1..Len(s) : s[i] \in {"0", "1"}

int2(s) == DigitsVal(s, 2)

RECURSIVE Numeral(_, _)
Numeral(n, base) ==
    IF n < base THEN <<Digits[n + 1]>>
    ELSE Numeral(n \div base, base) \o <<Digits[(n % base) + 1]>>

str(n) == IF n < 0 THEN <<"-">> \o Numeral(0 - n, 10) ELSE Numeral(n, 10)

\* s.ljust(width, c)
ljust(s, width, c) ==
    IF Len(s) >= width THEN s ELSE s \o [i \in 1..(width - Len(s)) |-> c]

\* format(n, '08b') for n >= 0: binary numeral, zero-filled on the left to
\* at least eight characters.
format08b(n) ==
    LET b == Numeral(n, 2)
    IN  IF Len(b) >= 8 THEN b ELSE [i \in 1..(8 - Len(b)) |-> "0"] \o b

RECURSIVE split(_, _)
split(s, sep) ==
    IF \A i \in 1..Len(s) : s[i] # sep THEN <<s>>
    ELSE LET k == CHOOSE i \in 1..Len(s) :
                      s[i] = sep /\ \A j \in 1..(i - 1) : s[j] # sep
         IN  <<SubSeq(s, 1, k - 1)>> \o split(SubSeq(s, k + 1, Len(s)), sep)

RECURSIVE join(_, _)
join(parts, sep) ==
    IF parts = <<>> THEN <<>>
    ELSE IF Len(parts) = 1 THEN parts[1]
    ELSE parts[1] \o sep \o join(Tail(parts), sep)

\* The text of a caught ValueError (err.message, a Python 2 attribute).  The
\* handlers are reached only by arguments that are not numbers, which no
\* call below passes.
err_message == <<"invalid literal for int()">>

----------------------------------------------------------------------------
(* Representation conversions *)

ipaddr2bin(ipaddr, fmt) ==
    LET octets == split(ipaddr, ".")
    IN  IF \A i \in 1..Len(octets) : CanInt(octets[i])
        THEN join([i \in 1..Len(octets) |-> format08b(int(octets[i]))], fmt)
        ELSE err_message

bin2ipaddr(binary) ==
    LET n == (Len(binary) + 7) \div 8
        octets == [k \in 1..n |->
                      SubSeq(binary, 8 * (k - 1) + 1, Min(8 * k, Len(binary)))]
    IN  IF \A k \in 1..n : CanInt2(octets[k])
        THEN join([k \in 1..n |-> str(int2(octets[k]))], <<".">>)
        ELSE err_message

MaxPrefix == 32

cidr2netmask(cidr) ==
    IF cidr <= MaxPrefix
    THEN LET binary == [dummy \in 1..cidr |-> "1"]
         IN  Return(bin2ipaddr(ljust(binary, 32, "0")))
    ELSE ReturnNone

\* Fault variant of netmask2cidr: the count starts at one
netmask2cidr_OffByOne(netmask) ==
    LET b == ipaddr2bin(netmask, <<>>)
    IN  Return(1 + Cardinality({i \in 1..Len(b) : int(<<b[i]>>) = 1}))

netmask2cidr(netmask) ==
    LET b == ipaddr2bin(netmask, <<>>)
    IN  Return(Cardinality({i \in 1..Len(b) : int(<<b[i]>>) = 1}))

\* Fault variant of magic_number: the octet is subtracted from 255
magic_number_From255(netmask) ==
    LET octets == split(netmask, ".")
        stops == {i \in 1..Len(octets) :
                     ~CanInt(octets[i]) \/ int(octets[i]) # 255}
    IN  IF stops = {} THEN ReturnNone
        ELSE LET num == CHOOSE i \in stops : \A j \in stops : i <= j
             IN  IF ~CanInt(octets[num]) THEN Raise("ValueError")
                 ELSE Return(<<255 - int(octets[num]), num - 1>>)

magic_number(netmask) ==
    LET octets == split(netmask, ".")
        stops == {i \in 1..Len(octets) :
                     ~CanInt(octets[i]) \/ int(octets[i]) # 255}
    IN  IF stops = {} THEN ReturnNone
        ELSE LET num == CHOOSE i \in stops : \A j \in stops : i <= j
             IN  IF ~CanInt(octets[num]) THEN Raise("ValueError")
                 ELSE Return(<<256 - int(octets[num]), num - 1>>)

----------------------------------------------------------------------------
(* Network, broadcast, wildcard *)

\* Fault variant of BitAnd: the bits are ORed
BitAnd_Or(a, b) == IF int(<<a>>) = 1 \/ int(<<b>>) = 1 THEN 1 ELSE 0

\* int(a) & int(b) and int(a) | int(b) on the characters of a binary string
BitAnd(a, b) == IF int(<<a>>) = 1 /\ int(<<b>>) = 1 THEN 1 ELSE 0

BitOr(a, b) == IF int(<<a>>) = 1 \/ int(<<b>>) = 1 THEN 1 ELSE 0

\* Fault variant of InverseBits: the netmask bits are left as they are
InverseBits_Kept(bin_netmask) == bin_netmask

\* ''.join('1' if x == '0' else '0' for x in bin_netmask)
InverseBits(bin_netmask) ==
    [i \in 1..Len(bin_netmask) |-> IF bin_netmask[i] = "0" THEN "1" ELSE "0"]

network(ipaddr) ==
    LET parts == split(ipaddr, "/")
        addr == parts[1]
        netmask == parts[2]
        AndAll(bin_ipaddr, bin_netmask) ==
            LET net == [i \in 1..Min(Len(bin_ipaddr), Len(bin_netmask)) |->
                           BitAnd(bin_ipaddr[i], bin_netmask[i])]
            IN  bin2ipaddr([i \in 1..Len(net) |-> str(net[i])[1]])
    IN  IF Len(parts) # 2 THEN Raise("ValueError")
        ELSE IF Len(netmask) <= 2
        THEN IF ~CanInt(netmask) THEN Raise("ValueError")
             ELSE LET mask == cidr2netmask(int(netmask))
                  IN  IF mask.status = "None" THEN Raise("AttributeError")
                      ELSE Return(AndAll(ipaddr2bin(addr, <<>>),
                                         ipaddr2bin(mask.val, <<>>)))
        ELSE Return(AndAll(ipaddr2bin(addr, <<>>), ipaddr2bin(netmask, <<>>)))

broadcast(ipaddr) ==
    LET parts == split(ipaddr, "/")
        addr == parts[1]
        netmask == parts[2]
        OrAll(bin_ipaddr, bin_netmask) ==
            LET net == [i \in 1..Min(Len(bin_ipaddr), Len(bin_netmask)) |->
                           BitOr(bin_ipaddr[i], bin_netmask[i])]
            IN  bin2ipaddr([i \in 1..Len(net) |-> str(net[i])[1]])
    IN  IF Len(parts) # 2 THEN Raise("ValueError")
        ELSE IF Len(netmask) <= 2
        THEN IF ~CanInt(netmask) THEN Raise("ValueError")
             ELSE LET mask == cidr2netmask(int(netmask))
                  IN  IF mask.status = "None" THEN Raise("AttributeError")
                      ELSE Return(OrAll(ipaddr2bin(addr, <<>>),
                                        InverseBits(ipaddr2bin(mask.val, <<>>))))
        ELSE Return(OrAll(ipaddr2bin(addr, <<>>),
                          InverseBits(ipaddr2bin(netmask, <<>>))))

\* Fault variant of wildcard: only the one-bits are flipped
wildcard_OnesOnly(netmask) ==
    LET bin_netmask == ipaddr2bin(netmask, <<>>)
        binary == [i \in 1..Len(bin_netmask) |->
                      IF bin_netmask[i] = "1" THEN "0" ELSE bin_netmask[i]]
    IN  Return(bin2ipaddr(binary))

wildcard(netmask) ==
    LET bin_netmask == ipaddr2bin(netmask, <<>>)
        binary == [i \in 1..Len(bin_netmask) |->
                      IF bin_netmask[i] = "1" THEN "0" ELSE "1"]
    IN  Return(bin2ipaddr(binary))

----------------------------------------------------------------------------
(* Membership test *)

\* Fault variant of OctetPasses: the bounds of the range are included
OctetPasses_Inclusive(n_octet, i_octet, w_octet, b_octet) ==
    IF \E k \in 1..Len(w_octet) : w_octet[k] = "0"
    THEN i_octet = n_octet
    ELSE int(n_octet) <= int(i_octet) /\ int(i_octet) <= int(b_octet)

\* Fault variant of OctetPasses: an octet the mask fixes is not compared
OctetPasses_Uncompared(n_octet, i_octet, w_octet, b_octet) ==
    IF \E k \in 1..Len(w_octet) : w_octet[k] = "0"
    THEN TRUE
    ELSE (int(n_octet) + 1) <= int(i_octet) /\ int(i_octet) <= (int(b_octet) - 1)

\* The body of the loop over zip(*octets): TRUE when the octet leaves in_net
\* as it is, FALSE when it sets in_net to False.
OctetPasses(n_octet, i_octet, w_octet, b_octet) ==
    IF \E k \in 1..Len(w_octet) : w_octet[k] = "0"
    THEN i_octet = n_octet
    ELSE (int(n_octet) + 1) <= int(i_octet) /\ int(i_octet) <= (int(b_octet) - 1)

isipaddrnet(ipaddr, netw) ==
    LET parts == split(netw, "/")
        netmask == parts[2]
    IN  IF Len(parts) < 2 THEN Raise("IndexError")
        ELSE IF ~CanInt(netmask) THEN Raise("ValueError")
        ELSE
          LET mask == IF int(netmask) <= MaxPrefix
                      THEN cidr2netmask(int(netmask)).val
                      ELSE netmask
              wild == wildcard(mask)
              net == network(netw)
              bcast == broadcast(netw)
          IN  IF net.status = "raise" THEN net
              ELSE IF bcast.status = "raise" THEN bcast
              ELSE
                LET net_octets == split(net.val, ".")
                    wildcard_octets == split(wild.val, ".")
                    ipaddr_octets == split(ipaddr, ".")
                    bcast_octets == split(bcast.val, ".")
                    n == Min(Min(Len(net_octets), Len(ipaddr_octets)),
                             Min(Len(wildcard_octets), Len(bcast_octets)))
                IN  Return(\A k \in 1..n :
                              OctetPasses(net_octets[k], ipaddr_octets[k],
                                          wildcard_octets[k], bcast_octets[k]))

----------------------------------------------------------------------------
(* Inputs of the calls *)

\* Octet values the addresses are built from; the first NumOctets are used.
OctetSamples == <<0, 255, 1, 130, 128, 254, 127, 192>>

NumOctets == 3

Octets == {OctetSamples[i] : i \in 1..NumOctets}

Addresses == [1..4 -> Octets]

\* Netmask arguments of magic_number, netmask2cidr and wildcard are built
\* from the first NumMaskOctets samples.
NumMaskOctets == 6

Netmasks == [1..4 -> {OctetSamples[i] : i \in 1..NumMaskOctets}]

\* Network arguments of isipaddrnet; the first NumNets are used.
NetSamples ==
    << <<1, 1, 1, 130>>, <<0, 0, 0, 0>>, <<255, 255, 255, 255>>,
       <<1, 255, 0, 1>>, <<130, 1, 0, 0>>, <<130, 255, 254, 0>>,
       <<255, 0, 1, 130>> >>

NumNets == 4

Nets == {NetSamples[i] : i \in 1..NumNets}

\* cidr2netmask is called with every integer from -CidrSlack to 32 + CidrSlack.
CidrSlack == 2

Cidrs == (0 - CidrSlack)..(MaxPrefix + CidrSlack)

Prefixes == 0..MaxPrefix

MaskForms == {"cidr", "dotted"}

\* The dotted-decimal string of four octets, "a.b.c.d"
Dotted(o) == join([i \in 1..4 |-> str(o[i])], <<".">>)

\* The mask part of "address/mask": the prefix length in decimal or the
\* netmask of that length in dotted-decimal form
MaskSpec(p, form) == IF form = "cidr" THEN str(p) ELSE cidr2netmask(p).val

WithMask(o, p, form) == Dotted(o) \o <<"/">> \o MaskSpec(p, form)

\* What a call's arguments were formatted from
NoDraw == [A |-> <<>>, N |-> <<>>, p |-> 0, form |-> "none"]

NoResult == [status |-> "none", val |-> <<>>]

----------------------------------------------------------------------------------------------------------------------------------------
(* The calls.  A caller formats the arguments and invokes a method         *)
(* (Invoke_m: ready -> called); the method runs to its end (Run_m: called  *)
(* -> returned); the caller takes the outcome (Done: returned -> ready).   *)

Init ==
    /\ pc = "ready"
    /\ op = "none"
    /\ args = <<>>
    /\ drawn = NoDraw
    /\ result = NoResult

Invoke(method, arguments, from) ==
    /\ op' = method
    /\ args' = arguments
    /\ drawn' = from
    /\ result' = NoResult
    /\ pc' = "called"

Finish(outcome) ==
    /\ result' = outcome
    /\ pc' = "returned"
    /\ UNCHANGED <<op, args, drawn>>

Invoke_magic_number ==
    /\ pc = "ready"
    /\ \E A \in Netmasks :
          Invoke("magic_number", <<Dotted(A)>>, [NoDraw EXCEPT !.A = A])

Run_magic_number ==
    /\ pc = "called" /\ op = "magic_number"
    /\ Finish(magic_number(args[1]))

Invoke_cidr2netmask ==
    /\ pc = "ready"
    /\ \E p \in Cidrs :
          Invoke("cidr2netmask", <<p>>, [NoDraw EXCEPT !.p = p])

Run_cidr2netmask ==
    /\ pc = "called" /\ op = "cidr2netmask"
    /\ Finish(cidr2netmask(args[1]))

\* netmask2cidr of a dotted-decimal string, or of the netmask the call of
\* cidr2netmask just returned
Invoke_netmask2cidr ==
    \/ /\ pc = "ready"
       /\ \E A \in Netmasks :
             Invoke("netmask2cidr", <<Dotted(A)>>, [NoDraw EXCEPT !.A = A])
    \/ /\ pc = "returned"
       /\ op = "cidr2netmask"
       /\ result.status = "return"
       /\ Invoke("netmask2cidr", <<result.val>>,
                 [drawn EXCEPT !.form = "cidr2netmask"])

Run_netmask2cidr ==
    /\ pc = "called" /\ op = "netmask2cidr"
    /\ Finish(netmask2cidr(args[1]))

Invoke_network ==
    /\ pc = "ready"
    /\ \E A \in Addresses, p \in Prefixes, form \in MaskForms :
          Invoke("network", <<WithMask(A, p, form)>>,
                 [NoDraw EXCEPT !.A = A, !.p = p, !.form = form])

Run_network ==
    /\ pc = "called" /\ op = "network"
    /\ Finish(network(args[1]))

Invoke_broadcast ==
    /\ pc = "ready"
    /\ \E A \in Addresses, p \in Prefixes, form \in MaskForms :
          Invoke("broadcast", <<WithMask(A, p, form)>>,
                 [NoDraw EXCEPT !.A = A, !.p = p, !.form = form])

Run_broadcast ==
    /\ pc = "called" /\ op = "broadcast"
    /\ Finish(broadcast(args[1]))

\* wildcard of a dotted-decimal string, or of the mask the call of wildcard
\* just returned
Invoke_wildcard ==
    \/ /\ pc = "ready"
       /\ \E A \in Netmasks :
             Invoke("wildcard", <<Dotted(A)>>, [NoDraw EXCEPT !.A = A])
    \/ /\ pc = "returned"
       /\ op = "wildcard"
       /\ drawn.form = "none"
       /\ Invoke("wildcard", <<result.val>>, [drawn EXCEPT !.form = "wildcard"])

Run_wildcard ==
    /\ pc = "called" /\ op = "wildcard"
    /\ Finish(wildcard(args[1]))

Invoke_isipaddrnet ==
    /\ pc = "ready"
    /\ \E A \in Addresses, N \in Nets, p \in Prefixes, form \in MaskForms :
          Invoke("isipaddrnet", <<Dotted(A), WithMask(N, p, form)>>,
                 [A |-> A, N |-> N, p |-> p, form |-> form])

Run_isipaddrnet ==
    /\ pc = "called" /\ op = "isipaddrnet"
    /\ Finish(isipaddrnet(args[1], args[2]))

\* The caller takes the outcome; the object holds no state between calls.
Done ==
    /\ pc = "returned"
    /\ pc' = "ready"
    /\ op' = "none"
    /\ args' = <<>>
    /\ drawn' = NoDraw
    /\ result' = NoResult

Next ==
    \/ Invoke_magic_number \/ Run_magic_number
    \/ Invoke_cidr2netmask \/ Run_cidr2netmask
    \/ Invoke_netmask2cidr \/ Run_netmask2cidr
    \/ Invoke_network \/ Run_network
    \/ Invoke_broadcast \/ Run_broadcast
    \/ Invoke_wildcard \/ Run_wildcard
    \/ Invoke_isipaddrnet \/ Run_isipaddrnet
    \/ Done

Spec == Init /\ [][Next]_vars

\* The conversions alone
NextConvert ==
    \/ Invoke_magic_number \/ Run_magic_number
    \/ Invoke_cidr2netmask \/ Run_cidr2netmask
    \/ Invoke_netmask2cidr \/ Run_netmask2cidr
    \/ Invoke_wildcard \/ Run_wildcard
    \/ Done

SpecConvert == Init /\ [][NextConvert]_vars

\* network and broadcast alone
NextDerive ==
    \/ Invoke_network \/ Run_network
    \/ Invoke_broadcast \/ Run_broadcast
    \/ Done

SpecDerive == Init /\ [][NextDerive]_vars

\* The membership test alone
NextMember == Invoke_isipaddrnet \/ Run_isipaddrnet \/ Done

SpecMember == Init /\ [][NextMember]_vars

----------------------------------------------------------------------------
(* Reference arithmetic on octets, independent of the string operators *)

\* The bitwise AND and OR of two numbers of n bits
RECURSIVE AndValue(_, _, _)
AndValue(a, b, n) ==
    IF n = 0 THEN 0
    ELSE 2 * AndValue(a \div 2, b \div 2, n - 1)
         + (IF a % 2 = 1 /\ b % 2 = 1 THEN 1 ELSE 0)

RECURSIVE OrValue(_, _, _)
OrValue(a, b, n) ==
    IF n = 0 THEN 0
    ELSE 2 * OrValue(a \div 2, b \div 2, n - 1)
         + (IF a % 2 = 1 \/ b % 2 = 1 THEN 1 ELSE 0)

\* Octet k of the mask of p leading one-bits
MaskOctet(p, k) ==
    LET ones == IF p >= 8 * k THEN 8
                ELSE IF p <= 8 * (k - 1) THEN 0
                ELSE p - 8 * (k - 1)
    IN  256 - 2 ^ (8 - ones)

MaskOf(p) == [k \in 1..4 |-> MaskOctet(p, k)]

\* A AND mask(p), and A OR NOT mask(p), octet by octet
NetworkOf(A, p) == [k \in 1..4 |-> AndValue(A[k], MaskOctet(p, k), 8)]

BroadcastOf(A, p) == [k \in 1..4 |-> OrValue(A[k], 255 - MaskOctet(p, k), 8)]

\* Order of the 32-bit values of two addresses
Below(a, b) == \E k \in 1..4 : a[k] < b[k] /\ \A j \in 1..(k - 1) : a[j] = b[j]

Returned(method) == pc = "returned" /\ op = method

----------------------------------------------------------------------------
(* Claims *)

\* C1: for every address A and prefix length p in 0..32, network("A/p")
\* returns the dotted-decimal form of A AND (p leading one-bits), and
\* network("A/M") with M the dotted-decimal netmask of p returns the same.
C1_NetworkIsBitwiseAnd ==
    Returned("network") =>
        /\ result.status = "return"
        /\ result.val = Dotted(NetworkOf(drawn.A, drawn.p))

C1_Witness ==
    /\ Returned("network")
    /\ drawn.form = "dotted"
    /\ drawn.A = <<1, 255, 255, 1>>
    /\ drawn.p = 10
    /\ result.val = Dotted(<<1, 192, 0, 0>>)

\* C2: for every address A and prefix length p in 0..32, broadcast("A/p")
\* returns the dotted-decimal form of A OR NOT (p leading one-bits), and
\* broadcast("A/M") with M the dotted-decimal netmask of p returns the same.
C2_BroadcastIsBitwiseOr ==
    Returned("broadcast") =>
        /\ result.status = "return"
        /\ result.val = Dotted(BroadcastOf(drawn.A, drawn.p))

C2_Witness ==
    /\ Returned("broadcast")
    /\ drawn.form = "dotted"
    /\ drawn.A = <<1, 0, 0, 1>>
    /\ drawn.p = 10
    /\ result.val = Dotted(<<1, 63, 255, 255>>)

\* C3: isipaddrnet(A, "N/p") returns True for every A whose 32-bit value is
\* strictly between those of network("N/p") and broadcast("N/p").
C3_InteriorIsMember ==
    ( /\ Returned("isipaddrnet")
      /\ drawn.form = "cidr"
      /\ Below(NetworkOf(drawn.N, drawn.p), drawn.A)
      /\ Below(drawn.A, BroadcastOf(drawn.N, drawn.p)) )
    => (result.status = "return" /\ result.val = TRUE)

\* C4 as stated: for every p in 0..32, isipaddrnet(network("N/p"), "N/p") and
\* isipaddrnet(broadcast("N/p"), "N/p") are False.
C4_BoundaryRejected ==
    ( /\ Returned("isipaddrnet")
      /\ drawn.form = "cidr"
      /\ \/ drawn.A = NetworkOf(drawn.N, drawn.p)
         \/ drawn.A = BroadcastOf(drawn.N, drawn.p) )
    => (result.status = "return" /\ result.val = FALSE)

\* C4 amended: for every p in 0..31, isipaddrnet(network("N/p"), "N/p") and
\* isipaddrnet(broadcast("N/p"), "N/p") are False; for p = 32 the network and
\* the broadcast address are N itself and the result is True.
C4_BoundaryRejectedBelow32 ==
    ( /\ Returned("isipaddrnet")
      /\ drawn.form = "cidr"
      /\ \/ drawn.A = NetworkOf(drawn.N, drawn.p)
         \/ drawn.A = BroadcastOf(drawn.N, drawn.p) )
    => (result.status = "return" /\ result.val = (drawn.p = MaxPrefix))

C4_Witness ==
    /\ Returned("isipaddrnet")
    /\ drawn.form = "cidr"
    /\ drawn.N = <<1, 1, 1, 130>>
    /\ drawn.p = 24
    /\ drawn.A = <<1, 1, 1, 255>>
    /\ result.val = FALSE

\* C5: isipaddrnet(A, "N/M") with M the dotted-decimal netmask of p completes
\* with a boolean, and it is the boolean isipaddrnet(A, "N/p") returns.
C5_DottedMaskAccepted ==
    (Returned("isipaddrnet") /\ drawn.form = "dotted") =>
        /\ result.status = "return"
        /\ result = isipaddrnet(Dotted(drawn.A), WithMask(drawn.N, drawn.p, "cidr"))

\* C6: for every p in 0..32, netmask2cidr(cidr2netmask(p)) = p.
C6_RoundTrip ==
    ( /\ Returned("netmask2cidr")
      /\ drawn.form = "cidr2netmask"
      /\ drawn.p \in Prefixes )
    => (result.status = "return" /\ result.val = drawn.p)

C6_Witness ==
    /\ Returned("netmask2cidr")
    /\ drawn.form = "cidr2netmask"
    /\ drawn.p = 20
    /\ args = <<Dotted(<<255, 255, 240, 0>>)>>
    /\ result.val = 20

\* C7: cidr2netmask(p) returns the dotted-decimal form of p one-bits followed
\* by 32 - p zero-bits for every p in 0..32, and no netmask for every p
\* outside 0..32.
C7_NetmaskExactlyInRange ==
    Returned("cidr2netmask") =>
        IF drawn.p \in Prefixes
        THEN result.status = "return" /\ result.val = Dotted(MaskOf(drawn.p))
        ELSE result.status = "None"

\* C8: for every netmask M of four octets in 0..255, each octet of
\* wildcard(M) is 255 minus the octet of M, and wildcard(wildcard(M)) = M.
C8_WildcardIsComplement ==
    Returned("wildcard") =>
        /\ result.status = "return"
        /\ drawn.form = "none" =>
               result.val = Dotted([k \in 1..4 |-> 255 - drawn.A[k]])
        /\ drawn.form = "wildcard" => result.val = Dotted(drawn.A)

C8_Witness ==
    /\ Returned("wildcard")
    /\ drawn.form = "wildcard"
    /\ drawn.A = <<255, 254, 128, 0>>
    /\ args = <<Dotted(<<0, 1, 127, 255>>)>>
    /\ result.val = Dotted(<<255, 254, 128, 0>>)

\* The 1-based position of the leftmost octet that is not 255
FirstNot255(A) ==
    CHOOSE k \in 1..4 : A[k] # 255 /\ \A j \in 1..(k - 1) : A[j] = 255

\* C9 as stated: for every netmask of four octets in 0..255, magic_number
\* returns (256 - v, i), i the 0-based index of the leftmost octet that is not
\* 255 and v its value.
C9_MagicNumberAlwaysTuple ==
    Returned("magic_number") =>
        /\ result.status = "return"
        /\ \E k \in 1..4 :
              /\ drawn.A[k] # 255
              /\ \A j \in 1..(k - 1) : drawn.A[j] = 255
              /\ result.val = <<256 - drawn.A[k], k - 1>>

\* C9 amended: for every netmask with an octet that is not 255, magic_number
\* returns (256 - v, i), i the 0-based index of the leftmost such octet and v
\* its value; for 255.255.255.255 it returns None.
C9_MagicNumberUnlessAll255 ==
    Returned("magic_number") =>
        IF \E k \in 1..4 : drawn.A[k] # 255
        THEN /\ result.status = "return"
             /\ result.val = <<256 - drawn.A[FirstNot255(drawn.A)],
                               FirstNot255(drawn.A) - 1>>
        ELSE result.status = "None"

C9_Witness ==
    /\ Returned("magic_number")
    /\ drawn.A = <<255, 255, 254, 0>>
    /\ result.val = <<2, 2>>

\* C10: if isipaddrnet(A, "N/p") returns True then network("A/p") =
\* network("N/p"), and the 32-bit value of A lies between those of
\* network("N/p") and broadcast("N/p") inclusive.
C10_NoFalseMember ==
    ( /\ Returned("isipaddrnet")
      /\ drawn.form = "cidr"
      /\ result.status = "return"
      /\ result.val = TRUE )
    => /\ NetworkOf(drawn.A, drawn.p) = NetworkOf(drawn.N, drawn.p)
       /\ ~Below(drawn.A, NetworkOf(drawn.N, drawn.p))
       /\ ~Below(BroadcastOf(drawn.N, drawn.p), drawn.A)

C10_Witness ==
    /\ Returned("isipaddrnet")
    /\ drawn.form = "cidr"
    /\ drawn.N = <<1, 1, 1, 130>>
    /\ drawn.p = 22
    /\ drawn.A = <<1, 1, 1, 1>>
    /\ result.val = TRUE

====
